---- MODULE Spec2Model ----
(***************************************************************************)
(* Crabtree backend (src-tauri/src/lib.rs): the path allowlist, the three  *)
(* validators and the Tauri commands built on them, over a small           *)
(* filesystem with directories, regular files and symbolic links.          *)
(*                                                                         *)
(* A file name is a sequence of one-character strings, a path is a         *)
(* sequence of names (all paths are absolute, <<>> is the root "/"), a     *)
(* text is a sequence of characters and a file holds a sequence of bytes.  *)
(***************************************************************************)
EXTENDS Integers, Sequences, FiniteSets, TLC

VARIABLES
    fs,          \* the filesystem: location (canonical path) -> node
    approved,    \* APPROVED_PATHS: the Vec<PathBuf> behind the mutex
    lock,        \* the owner of the APPROVED_PATHS mutex, or NoProc
    pc,          \* per request worker: position in its command handler
    req,         \* per request worker: the command and its arguments
    canonical,   \* per request worker: the local `canonical` of approve_path / is_path_allowed
    bytes,       \* per request worker: the local `bytes` of read_file
    ret,         \* per request worker: the command's Result once pc = "done"
    univ         \* the requests the front-end may send in this run (never changes)

vars == <<fs, approved, lock, pc, req, canonical, bytes, ret, univ>>

(***************************************************************************)
(* Bounds of the model.                                                    *)
(***************************************************************************)
MaxApproved == 2       \* approve_path is not started once the Vec holds this many
MaxLinkHops == 3       \* symlinks followed by one canonicalization (stands for ELOOP)
DeepLen == 12          \* length of the chain of nested directories below /a/b

Workers == {"w1", "w2"}    \* the request workers
NoProc == "none"

(***************************************************************************)
(* Characters, names and paths.                                            *)
(***************************************************************************)
\* The characters that occur in names, in ASCII order.
Alphabet == <<".", "B", "R", "S", "_", "a", "b", "d", "e", "f", "g", "l",
              "m", "n", "o", "r", "s", "t", "u", "x">>

Code(c) == CHOOSE i \in 1..Len(Alphabet) : Alphabet[i] = c

\* char::to_lowercase on the alphabet
ToLowerChar(c) ==
    CASE c = "B" -> "b"
      [] c = "R" -> "r"
      [] c = "S" -> "s"
      [] OTHER -> c

to_lowercase(s) == [i \in 1..Len(s) |-> ToLowerChar(s[i])]

\* Ord::cmp on strings: lexicographic on the code units; TRUE iff a < b
RECURSIVE StrLess(_, _)
StrLess(a, b) ==
    IF b = <<>> THEN FALSE
    ELSE IF a = <<>> THEN TRUE
    ELSE IF Head(a) # Head(b) THEN Code(Head(a)) < Code(Head(b))
    ELSE StrLess(Tail(a), Tail(b))

nA == <<"a">>
nB == <<"b">>
nBB == <<"b", "b">>
nD == <<"d">>
nF == <<"f">>
nL == <<"l">>
nN == <<"n">>
nO == <<"o">>
nS == <<"s">>
nX == <<"x">>
nGit == <<".", "g">>
nUpperB == <<"B">>
nNodeModules == <<"n", "o", "d", "e", "_", "m", "o", "d", "u", "l", "e", "s">>
nTarget == <<"t", "a", "r", "g", "e", "t">>
DotDot == <<".", ".">>

Root == <<>>

\* the path as the string the front-end sends: "/" and the names joined by "/"
RECURSIVE ToStr(_)
ToStr(p) ==
    IF p = <<>> THEN <<>>
    ELSE <<"/">> \o Head(p) \o ToStr(Tail(p))

IsPrefix(s, t) == Len(s) <= Len(t) /\ SubSeq(t, 1, Len(s)) = s

\* (a prefix test on the strings instead, as str::starts_with would make it)
starts_with_str(p, base) == IsPrefix(ToStr(base), ToStr(p))

\* Path::starts_with: `base` is a prefix of `p` on whole components
starts_with(p, base) == IsPrefix(base, p)

\* Path::parent: None (<<>>) for the root, Some(parent) (<<parent>>) otherwise
parent(p) == IF p = Root THEN <<>> ELSE <<SubSeq(p, 1, Len(p) - 1)>>

\* Path::file_name
file_name(p) == IF p = Root \/ p[Len(p)] = DotDot THEN <<>> ELSE p[Len(p)]

(***************************************************************************)
(* The filesystem.                                                         *)
(***************************************************************************)
Dir == [kind |-> "dir", bytes |-> <<>>, target |-> <<>>]
File(b) == [kind |-> "file", bytes |-> b, target |-> <<>>]
Link(t) == [kind |-> "link", bytes |-> <<>>, target |-> t]

Err(msg) == [ok |-> FALSE, err |-> msg, val |-> <<>>]
Ok(v) == [ok |-> TRUE, err |-> "", val |-> v]

\* fs::canonicalize (realpath): resolve `rest` below the resolved location
\* `cur`, following symlinks and ".."; every component must exist.
RECURSIVE Resolve(_, _, _, _)
Resolve(f, cur, rest, hops) ==
    IF rest = <<>> THEN Ok(cur)
    ELSE IF Head(rest) = DotDot
        THEN Resolve(f, IF cur = Root THEN Root ELSE SubSeq(cur, 1, Len(cur) - 1),
                     Tail(rest), hops)
    ELSE LET next == Append(cur, Head(rest)) IN
        IF next \notin DOMAIN f THEN Err("No such file or directory")
        ELSE IF f[next].kind = "link"
            THEN IF hops = 0 THEN Err("Too many levels of symbolic links")
                 ELSE Resolve(f, Root, f[next].target \o Tail(rest), hops - 1)
        ELSE IF f[next].kind = "file" /\ Tail(rest) # <<>>
            THEN Err("Not a directory")
        ELSE Resolve(f, next, Tail(rest), hops)

canonicalize(f, p) == Resolve(f, Root, p, MaxLinkHops)

\* fs::metadata: follows symlinks; the node the path denotes
metadata(f, p) ==
    LET r == canonicalize(f, p) IN
    IF r.ok THEN Ok(f[r.val]) ELSE r

\* Path::exists, Path::is_dir: metadata succeeded (and names a directory)
exists(f, p) == metadata(f, p).ok
is_dir(f, p) == LET m == metadata(f, p) IN m.ok /\ m.val.kind = "dir"

\* fs::read: the bytes of the regular file the path denotes
FsRead(f, p) ==
    LET m == metadata(f, p) IN
    IF ~m.ok THEN m
    ELSE IF m.val.kind # "file" THEN Err("Is a directory")
    ELSE Ok(m.val.bytes)

\* fs::write: open(O_WRONLY | O_CREAT | O_TRUNC) and write all the bytes.  The
\* directory part must resolve to a directory; a symlink in the last component
\* is followed (also a dangling one, whose target is then created); a missing
\* file is created.  The value is the filesystem afterwards.
RECURSIVE FsWrite(_, _, _, _)
FsWrite(f, p, b, hops) ==
    IF p = Root \/ p[Len(p)] = DotDot THEN Err("Is a directory")
    ELSE LET d == canonicalize(f, SubSeq(p, 1, Len(p) - 1)) IN
        IF ~d.ok THEN d
        ELSE IF f[d.val].kind # "dir" THEN Err("Not a directory")
        ELSE LET at == Append(d.val, p[Len(p)]) IN
            IF at \notin DOMAIN f
                THEN Ok([q \in DOMAIN f \cup {at} |-> IF q = at THEN File(b) ELSE f[q]])
            ELSE IF f[at].kind = "dir" THEN Err("Is a directory")
            ELSE IF f[at].kind = "link"
                THEN IF hops = 0 THEN Err("Too many levels of symbolic links")
                     ELSE FsWrite(f, f[at].target, b, hops - 1)
            ELSE Ok([f EXCEPT ![at] = File(b)])

write(f, p, b) == FsWrite(f, p, b, MaxLinkHops)

(***************************************************************************)
(* Texts and bytes.                                                        *)
(***************************************************************************)
CR == "\r"
LF == "\n"
BOM == "FEFF"      \* the character U+FEFF

\* str::as_bytes: UTF-8; an ASCII character is its own byte
RECURSIVE as_bytes(_)
as_bytes(t) ==
    IF t = <<>> THEN <<>>
    ELSE (IF Head(t) = BOM THEN <<"EF", "BB", "BF">> ELSE <<Head(t)>>) \o as_bytes(Tail(t))

T0 == <<"s", LF>>              \* what the files hold at the start
T1 == <<"x", LF>>
T2 == <<CR, "x", CR, LF>>
T3 == <<"x", CR, "x">>
TBom == <<BOM, "x", LF>>       \* a text that begins with U+FEFF
Texts == {T1, T2}

(***************************************************************************)
(* The initial filesystem.                                                 *)
(*   /a/b            the project directory; /a/b/f a file in it            *)
(*   /a/b/l          a symlink, to /o/s or to /a/b/f                       *)
(*   /a/b/d/d/...    DeepLen nested directories                            *)
(*   /a/b/d/l        a symlink back to /a/b                                *)
(*   /a/bb           a sibling of /a/b that shares its string prefix       *)
(*   /o/s            a file outside the project                            *)
(***************************************************************************)
Proj == <<nA, nB>>
Chain(n) == Proj \o [i \in 1..n |-> nD]

InitFs ==
    LET fixed ==
            (Root :> Dir) @@ (<<nA>> :> Dir) @@ (Proj :> Dir)
            @@ (Proj \o <<nF>> :> File(as_bytes(T0)))
            @@ (Proj \o <<nA>> :> File(as_bytes(T0)))
            @@ (Proj \o <<nUpperB>> :> File(as_bytes(T0)))
            @@ (Proj \o <<nL>> :> Link(<<nO, nS>>))
            @@ (Proj \o <<nGit>> :> Dir)
            @@ (Proj \o <<nGit, nX>> :> File(as_bytes(T0)))
            @@ (Proj \o <<nNodeModules>> :> Dir)
            @@ (Proj \o <<nTarget>> :> File(as_bytes(T0)))
            @@ (Proj \o <<nD, nTarget>> :> Dir)
            @@ (Proj \o <<nD, nGit>> :> File(as_bytes(T0)))
            @@ (Proj \o <<nD, nX>> :> File(as_bytes(T0)))
            @@ (Proj \o <<nD, nL>> :> Link(Proj))
            @@ (<<nA, nBB>> :> File(as_bytes(T0)))
            @@ (<<nO>> :> Dir)
            @@ (<<nO, nS>> :> File(as_bytes(T0)))
        chain == [q \in {Chain(n) : n \in 1..DeepLen} |-> Dir]
    IN fixed @@ chain

\* encoding_rs names; "guess" stands for whatever chardetng answers without a BOM
detect_encoding(b) ==
    IF Len(b) >= 3 /\ b[1] = "EF" /\ b[2] = "BB" /\ b[3] = "BF" THEN "UTF-8"
    ELSE IF Len(b) >= 2 /\ b[1] = "FF" /\ b[2] = "FE" THEN "UTF-16LE"
    ELSE IF Len(b) >= 2 /\ b[1] = "FE" /\ b[2] = "FF" THEN "UTF-16BE"
    ELSE "guess"

\* Encoding::decode: a byte order mark of the encoding is removed, an ASCII
\* byte decodes to its character, a UTF-8 encoded U+FEFF to that character
RECURSIVE DecodeUtf8(_)
DecodeUtf8(b) ==
    IF b = <<>> THEN <<>>
    ELSE IF Len(b) >= 3 /\ b[1] = "EF" /\ b[2] = "BB" /\ b[3] = "BF"
        THEN <<BOM>> \o DecodeUtf8(SubSeq(b, 4, Len(b)))
    ELSE <<Head(b)>> \o DecodeUtf8(Tail(b))

\* (a UTF-16 stream decodes two bytes to a character; none of the characters
\* of the model has such an encoding, so each pair gives U+FFFD)
decode(enc, b) ==
    IF enc = "UTF-8" THEN DecodeUtf8(SubSeq(b, 4, Len(b)))
    ELSE IF enc \in {"UTF-16LE", "UTF-16BE"}
        THEN [i \in 1..((Len(b) - 1) \div 2) |-> "FFFD"]
    ELSE DecodeUtf8(b)

\* str::contains for a pattern of one or two characters
contains(t, pat) == \E i \in 1..Len(t) : IsPrefix(pat, SubSeq(t, i, Len(t)))

detect_line_ending(content) ==
    IF contains(content, <<CR, LF>>) THEN "CRLF"
    ELSE IF contains(content, <<CR>>) THEN "CR"
    ELSE "LF"

(***************************************************************************)
(* get_file_language                                                       *)
(***************************************************************************)
\* Path::extension: the part of the name after its last ".", None (<<>>) when
\* there is no "." or the only "." is the first character
extension(name) ==
    LET dots == {i \in 2..Len(name) : name[i] = "."} IN
    IF dots = {} THEN <<>>
    ELSE LET last == CHOOSE i \in dots : \A j \in dots : j <= i
         IN <<SubSeq(name, last + 1, Len(name))>>

get_file_language(file_name_arg) ==
    LET e == extension(file_name_arg)
        ext == IF e = <<>> THEN <<>> ELSE to_lowercase(e[1])
    IN
    CASE ext = <<"r", "s">> -> "rust"
      [] ext = <<"j", "s">> \/ ext = <<"m", "j", "s">> \/ ext = <<"c", "j", "s">> -> "javascript"
      [] ext = <<"t", "s">> \/ ext = <<"m", "t", "s">> \/ ext = <<"c", "t", "s">> -> "typescript"
      [] ext = <<"j", "s", "x">> -> "jsx"
      [] ext = <<"t", "s", "x">> -> "tsx"
      [] ext = <<"p", "y">> \/ ext = <<"p", "y", "w">> -> "python"
      [] ext = <<"j", "a", "v", "a">> -> "java"
      [] ext = <<"c">> -> "c"
      [] ext = <<"c", "p", "p">> \/ ext = <<"c", "c">> \/ ext = <<"c", "x", "x">> \/ ext = <<"c", "+", "+">> -> "cpp"
      [] ext = <<"h">> \/ ext = <<"h", "p", "p">> \/ ext = <<"h", "x", "x">> -> "cpp"
      [] ext = <<"c", "s">> -> "csharp"
      [] ext = <<"g", "o">> -> "go"
      [] ext = <<"r", "b">> -> "ruby"
      [] ext = <<"p", "h", "p">> -> "php"
      [] ext = <<"s", "w", "i", "f", "t">> -> "swift"
      [] ext = <<"k", "t">> \/ ext = <<"k", "t", "s">> -> "kotlin"
      [] ext = <<"s", "c", "a", "l", "a">> -> "scala"
      [] ext = <<"r">> -> "r"
      [] ext = <<"h", "t", "m", "l">> \/ ext = <<"h", "t", "m">> -> "html"
      [] ext = <<"c", "s", "s">> -> "css"
      [] ext = <<"s", "c", "s", "s">> \/ ext = <<"s", "a", "s", "s">> -> "sass"
      [] ext = <<"l", "e", "s", "s">> -> "less"
      [] ext = <<"j", "s", "o", "n">> -> "json"
      [] ext = <<"x", "m", "l">> \/ ext = <<"x", "s", "l">> \/ ext = <<"x", "s", "l", "t">> \/ ext = <<"s", "v", "g">> -> "xml"
      [] ext = <<"y", "a", "m", "l">> \/ ext = <<"y", "m", "l">> -> "yaml"
      [] ext = <<"t", "o", "m", "l">> -> "toml"
      [] ext = <<"m", "d">> \/ ext = <<"m", "a", "r", "k", "d", "o", "w", "n">> -> "markdown"
      [] ext = <<"s", "q", "l">> -> "sql"
      [] ext = <<"s", "h">> \/ ext = <<"b", "a", "s", "h">> \/ ext = <<"z", "s", "h">> -> "shell"
      [] ext = <<"p", "s", "1">> \/ ext = <<"p", "s", "m", "1">> -> "powershell"
      [] ext = <<"b", "a", "t">> \/ ext = <<"c", "m", "d">> -> "shell"
      [] ext = <<"l", "u", "a">> -> "lua"
      [] ext = <<"p", "e", "r", "l">> \/ ext = <<"p", "l">> \/ ext = <<"p", "m">> -> "perl"
      [] ext = <<"d", "o", "c", "k", "e", "r", "f", "i", "l", "e">> -> "dockerfile"
      [] ext = <<"m", "a", "k", "e", "f", "i", "l", "e">> -> "cmake"
      [] ext = <<"c", "m", "a", "k", "e">> -> "cmake"
      [] ext = <<"i", "n", "i">> \/ ext = <<"c", "f", "g">> \/ ext = <<"c", "o", "n", "f">> -> "ini"
      [] ext = <<"t", "x", "t">> \/ ext = <<"l", "o", "g">> -> "plaintext"
      [] OTHER -> "plaintext"

(***************************************************************************)
(* build_file_tree                                                         *)
(***************************************************************************)
MaxDepth == 10

\* the names in directory `at`, in the order the directory yields them: the
\* order is the filesystem's own; the two orders taken here are by name,
\* ascending and descending
RECURSIVE SeqOf(_, _)
SeqOf(S, rev) ==
    IF S = {} THEN <<>>
    ELSE LET x == CHOOSE y \in S : \A z \in S \ {y} :
                      IF rev THEN StrLess(z, y) ELSE StrLess(y, z)
         IN <<x>> \o SeqOf(S \ {x}, rev)

\* fs::read_dir: the entries of the directory the path denotes
read_dir(f, dir, rev) ==
    LET m == canonicalize(f, dir) IN
    IF ~m.ok THEN m
    ELSE IF f[m.val].kind # "dir" THEN Err("Not a directory")
    ELSE Ok([at |-> m.val,
             names |-> SeqOf({q[Len(q)] : q \in {r \in DOMAIN f :
                                 Len(r) = Len(m.val) + 1 /\ IsPrefix(m.val, r)}}, rev)])

\* DirEntry::file_type().is_dir(): the type of the entry itself, a symlink is not followed
EntryIsDir(f, at, name) == f[Append(at, name)].kind = "dir"

\* (the names compared as they are, upper case before lower case)
ItemLessCaseSensitive(f, at, a, b) ==
    LET a_is_dir == EntryIsDir(f, at, a)
        b_is_dir == EntryIsDir(f, at, b)
    IN IF a_is_dir # b_is_dir THEN a_is_dir
       ELSE StrLess(a, b)

\* the comparator of items.sort_by: directories first, then the lowercased names
ItemLess(f, at, a, b) ==
    LET a_is_dir == EntryIsDir(f, at, a)
        b_is_dir == EntryIsDir(f, at, b)
    IN IF a_is_dir # b_is_dir THEN a_is_dir
       ELSE StrLess(to_lowercase(a), to_lowercase(b))

\* slice::sort_by, a stable sort: x goes behind every item that is not greater
RECURSIVE InsertItem(_, _, _, _)
InsertItem(f, at, x, s) ==
    IF s = <<>> THEN <<x>>
    ELSE IF ItemLess(f, at, x, Head(s)) THEN <<x>> \o s
    ELSE <<Head(s)>> \o InsertItem(f, at, x, Tail(s))

RECURSIVE sort_by(_, _, _)
sort_by(f, at, items) ==
    IF items = <<>> THEN <<>>
    ELSE InsertItem(f, at, items[Len(items)],
                    sort_by(f, at, SubSeq(items, 1, Len(items) - 1)))

\* the filter of the loop: hidden names and the two ignored names
Skipped(name) == (name # <<>> /\ name[1] = ".") \/ name = nNodeModules \/ name = nTarget

\* The value is [entries, reads]: the Vec<FileEntry> and the depths at which
\* fs::read_dir was called.  Option is a sequence of length 0 (None) or 1 (Some).
RECURSIVE build_file_tree(_, _, _, _, _)
RECURSIVE BuildItems(_, _, _, _, _, _, _)
\* (the depth test off by one)
build_file_tree_deeper(f, dir, depth, max_depth, rev) ==
    IF depth > max_depth + 1 THEN [entries |-> <<>>, reads |-> {}]
    ELSE LET rd == read_dir(f, dir, rev) IN
        IF ~rd.ok THEN [entries |-> <<>>, reads |-> {depth}]
        ELSE LET r == BuildItems(f, dir, rd.val.at, sort_by(f, rd.val.at, rd.val.names),
                                 depth, max_depth, rev)
             IN [entries |-> r.entries, reads |-> r.reads \cup {depth}]

build_file_tree(f, dir, depth, max_depth, rev) ==
    IF depth > max_depth THEN [entries |-> <<>>, reads |-> {}]
    ELSE LET rd == read_dir(f, dir, rev) IN
        IF ~rd.ok THEN [entries |-> <<>>, reads |-> {depth}]
        ELSE LET r == BuildItems(f, dir, rd.val.at, sort_by(f, rd.val.at, rd.val.names),
                                 depth, max_depth, rev)
             IN [entries |-> r.entries, reads |-> r.reads \cup {depth}]

BuildItems(f, dir, at, items, depth, max_depth, rev) ==
    IF items = <<>> THEN [entries |-> <<>>, reads |-> {}]
    ELSE LET name == Head(items)
             rest == BuildItems(f, dir, at, Tail(items), depth, max_depth, rev)
         IN IF Skipped(name) THEN rest
            ELSE LET path == Append(dir, name)
                     isd == EntryIsDir(f, at, name)
                     sub == IF isd THEN build_file_tree(f, path, depth + 1, max_depth, rev)
                                   ELSE [entries |-> <<>>, reads |-> {}]
                     entry == [name |-> name, path |-> path, is_dir |-> isd,
                               children |-> IF isd THEN <<sub.entries>> ELSE <<>>]
                 IN [entries |-> <<entry>> \o rest.entries,
                     reads |-> sub.reads \cup rest.reads]

(***************************************************************************)
(* The requests the front-end sends.                                       *)
(***************************************************************************)
Outside == <<nO, nS>>
Missing == <<nO, nX>>

\* One worker, a wide choice of requests.
Sequential ==
    [workers |-> {"w1"},
     approve |-> {Proj, Proj \o <<DotDot, nB>>, Proj \o <<nF>>, Proj \o <<nL>>, Missing},
     read |-> {Proj, Proj \o <<nF>>, <<nA, nBB>>, Outside, Missing, Proj \o <<nL>>,
               Proj \o <<DotDot, nBB>>},
     list |-> {Proj, Proj \o <<nF>>, <<nO>>, Proj \o <<DotDot, DotDot, nO>>},
     write |-> {Proj \o <<nN>>, Proj \o <<nF>>, Proj \o <<nL>>, Outside, Root, Proj \o <<nD>>,
                Missing \o <<nN>>, Proj \o <<nF, nN>>},
     texts |-> Texts,
     names |-> {<<"m", ".", "R", "S">>, <<".", "g">>}]

\* Two workers at once, a narrow choice of requests.
Concurrent ==
    [workers |-> Workers,
     approve |-> {Proj, Proj \o <<nL>>},
     read |-> {Proj \o <<nF>>, Outside},
     list |-> {Proj},
     write |-> {Proj \o <<nN>>},
     texts |-> {T1},
     names |-> {<<"m", ".", "R", "S">>}]

Idle == [op |-> "none", path |-> <<>>, text |-> <<>>]
Pending == Err("pending")

Init ==
    /\ fs = InitFs
    /\ approved = <<>>
    /\ lock = NoProc
    /\ pc = [p \in Workers |-> "idle"]
    /\ req = [p \in Workers |-> Idle]
    /\ canonical = [p \in Workers |-> <<>>]
    /\ bytes = [p \in Workers |-> <<>>]
    /\ ret = [p \in Workers |-> Pending]
    /\ univ = Sequential

\* the command `op` is dispatched to worker p
Dispatch(p, op, path, text, first) ==
    /\ p \in univ.workers
    /\ pc[p] = "idle"
    /\ req' = [req EXCEPT ![p] = [op |-> op, path |-> path, text |-> text]]
    /\ pc' = [pc EXCEPT ![p] = first]
    /\ UNCHANGED <<fs, approved, lock, canonical, bytes, ret, univ>>

\* the command returns r
Return(p, r) ==
    /\ pc' = [pc EXCEPT ![p] = "done"]
    /\ ret' = [ret EXCEPT ![p] = r]

Goto(p, l) ==
    /\ pc' = [pc EXCEPT ![p] = l]
    /\ UNCHANGED ret

\* the response is delivered and the worker is free again
Respond(p) ==
    /\ pc[p] = "done"
    /\ pc' = [pc EXCEPT ![p] = "idle"]
    /\ req' = [req EXCEPT ![p] = Idle]
    /\ canonical' = [canonical EXCEPT ![p] = <<>>]
    /\ bytes' = [bytes EXCEPT ![p] = <<>>]
    /\ ret' = [ret EXCEPT ![p] = Pending]
    /\ UNCHANGED <<fs, approved, lock, univ>>

(***************************************************************************)
(* approve_path                                                            *)
(***************************************************************************)
InFlightApprovals == Cardinality({p \in Workers : req[p].op = "approve_path"})

call_approve_path(p) ==
    /\ Len(approved) + InFlightApprovals < MaxApproved
    /\ \E path \in univ.approve : Dispatch(p, "approve_path", path, <<>>, "ap_canonicalize")

approve_path_canonicalize(p) ==
    /\ pc[p] = "ap_canonicalize"
    /\ LET c == canonicalize(fs, req[p].path) IN
        IF c.ok
        THEN /\ canonical' = [canonical EXCEPT ![p] = c.val]
             /\ Goto(p, "ap_lock")
        ELSE /\ Return(p, Err("Cannot resolve path"))
             /\ UNCHANGED canonical
    /\ UNCHANGED <<fs, approved, lock, req, bytes, univ>>

\* (the push is made without waiting for the mutex)
approve_path_no_wait(p) ==
    /\ pc[p] = "ap_lock"
    /\ lock' = p
    /\ Goto(p, "ap_push")
    /\ UNCHANGED <<fs, approved, req, canonical, bytes, univ>>

\* Mutex::lock.  (lock() returns Err only after a holder panicked; nothing
\* between a lock and the return of its function can panic, so the
\* "Allowlist lock poisoned" results do not occur.)
approve_path_lock(p) ==
    /\ pc[p] = "ap_lock"
    /\ lock = NoProc
    /\ lock' = p
    /\ Goto(p, "ap_push")
    /\ UNCHANGED <<fs, approved, req, canonical, bytes, univ>>

\* (the path is pushed as it was requested)
approve_path_push_raw(p) ==
    /\ pc[p] = "ap_push"
    /\ approved' = Append(approved, req[p].path)
    /\ lock' = NoProc
    /\ Return(p, Ok(<<>>))
    /\ UNCHANGED <<fs, req, canonical, bytes, univ>>

\* allowed.push(canonical); the guard is dropped on return
approve_path_push(p) ==
    /\ pc[p] = "ap_push"
    /\ approved' = Append(approved, canonical[p])
    /\ lock' = NoProc
    /\ Return(p, Ok(<<>>))
    /\ UNCHANGED <<fs, req, canonical, bytes, univ>>

(***************************************************************************)
(* clear_approved_paths                                                    *)
(***************************************************************************)
call_clear_approved_paths(p) ==
    /\ pc[p] = "idle"
    /\ Dispatch(p, "clear_approved_paths", <<>>, <<>>, "cl_lock")

clear_approved_paths_lock(p) ==
    /\ pc[p] = "cl_lock"
    /\ lock = NoProc
    /\ lock' = p
    /\ Goto(p, "cl_clear")
    /\ UNCHANGED <<fs, approved, req, canonical, bytes, univ>>

\* (only the newest approval is dropped, as Vec::pop would)
clear_approved_paths_pop(p) ==
    /\ pc[p] = "cl_clear"
    /\ approved' = SubSeq(approved, 1, Len(approved) - 1)
    /\ lock' = NoProc
    /\ Return(p, Ok(<<>>))
    /\ UNCHANGED <<fs, req, canonical, bytes, univ>>

clear_approved_paths_clear(p) ==
    /\ pc[p] = "cl_clear"
    /\ approved' = <<>>
    /\ lock' = NoProc
    /\ Return(p, Ok(<<>>))
    /\ UNCHANGED <<fs, req, canonical, bytes, univ>>

(***************************************************************************)
(* is_path_allowed, as called by the three validators                      *)
(***************************************************************************)
\* (the path itself also for a write, so that the file must exist)
LookupPathItself(p) == req[p].path

\* the argument of is_path_allowed: the path, or its parent for a write
LookupPath(p) ==
    IF req[p].op = "save_file_as" THEN parent(req[p].path)[1] ELSE req[p].path

\* where the validator goes on when is_path_allowed returned Ok
AfterLookup(p) ==
    CASE req[p].op = "read_file" -> "vf_metadata"
      [] req[p].op = "list_directory" -> "vd_metadata"
      [] req[p].op = "save_file_as" -> "vw_exists"

\* (the loop finds every path approved)
InAllowlistAlways(canon, allowed) == TRUE

\* the loop over the allowlist
InAllowlist(canon, allowed) ==
    \E i \in 1..Len(allowed) : starts_with(canon, allowed[i]) \/ canon = allowed[i]

\* (the path is resolved as the filesystem stood when the program started)
is_path_allowed_canonicalize_stale(p) ==
    /\ pc[p] = "ipa_canonicalize"
    /\ LET c == canonicalize(InitFs, LookupPath(p)) IN
        IF c.ok
        THEN /\ canonical' = [canonical EXCEPT ![p] = c.val]
             /\ Goto(p, "ipa_lock")
        ELSE /\ Return(p, Err("Cannot resolve path"))
             /\ UNCHANGED canonical
    /\ UNCHANGED <<fs, approved, lock, req, bytes, univ>>

is_path_allowed_canonicalize(p) ==
    /\ pc[p] = "ipa_canonicalize"
    /\ LET c == canonicalize(fs, LookupPath(p)) IN
        IF c.ok
        THEN /\ canonical' = [canonical EXCEPT ![p] = c.val]
             /\ Goto(p, "ipa_lock")
        ELSE /\ Return(p, Err("Cannot resolve path"))
             /\ UNCHANGED canonical
    /\ UNCHANGED <<fs, approved, lock, req, bytes, univ>>

is_path_allowed_lock(p) ==
    /\ pc[p] = "ipa_lock"
    /\ lock = NoProc
    /\ lock' = p
    /\ Goto(p, "ipa_check")
    /\ UNCHANGED <<fs, approved, req, canonical, bytes, univ>>

\* (a path found allowed is remembered in the allowlist)
is_path_allowed_check_remember(p) ==
    /\ pc[p] = "ipa_check"
    /\ lock' = NoProc
    /\ IF InAllowlist(canonical[p], approved)
       THEN Goto(p, AfterLookup(p)) /\ approved' = Append(approved, canonical[p])
       ELSE Return(p, Err("Access denied")) /\ UNCHANGED approved
    /\ UNCHANGED <<fs, req, canonical, bytes, univ>>

\* (the guard is kept by the validator that called, until the command returns)
is_path_allowed_check_keep_guard(p) ==
    /\ pc[p] = "ipa_check"
    /\ IF InAllowlist(canonical[p], approved)
       THEN Goto(p, AfterLookup(p)) /\ UNCHANGED lock
       ELSE Return(p, Err("Access denied")) /\ lock' = NoProc
    /\ UNCHANGED <<fs, approved, req, canonical, bytes, univ>>

is_path_allowed_check(p) ==
    /\ pc[p] = "ipa_check"
    /\ lock' = NoProc
    /\ IF InAllowlist(canonical[p], approved)
       THEN Goto(p, AfterLookup(p))
       ELSE Return(p, Err("Access denied"))
    /\ UNCHANGED <<fs, approved, req, canonical, bytes, univ>>

(***************************************************************************)
(* read_file, with validate_file_path                                      *)
(***************************************************************************)
call_read_file(p) ==
    \E path \in univ.read : Dispatch(p, "read_file", path, <<>>, "ipa_canonicalize")

\* (the is_file test left out)
validate_file_path_any_kind(p) ==
    /\ pc[p] = "vf_metadata"
    /\ LET m == metadata(fs, canonical[p]) IN
        IF ~m.ok THEN Return(p, Err("Cannot access file metadata"))
        ELSE Goto(p, "rf_read")
    /\ UNCHANGED <<fs, approved, lock, req, canonical, bytes, univ>>

\* (the allowlist is looked at once more, after the lookup)
validate_file_path_metadata_recheck(p) ==
    /\ pc[p] = "vf_metadata"
    /\ LET m == metadata(fs, canonical[p]) IN
        IF ~InAllowlist(canonical[p], approved) THEN Return(p, Err("Access denied"))
        ELSE IF ~m.ok THEN Return(p, Err("Cannot access file metadata"))
        ELSE IF m.val.kind # "file" THEN Return(p, Err("Path is not a regular file"))
        ELSE Goto(p, "rf_read")
    /\ UNCHANGED <<fs, approved, lock, req, canonical, bytes, univ>>

\* fs::metadata(&canonical) and the is_file test
validate_file_path_metadata(p) ==
    /\ pc[p] = "vf_metadata"
    /\ LET m == metadata(fs, canonical[p]) IN
        IF ~m.ok THEN Return(p, Err("Cannot access file metadata"))
        ELSE IF m.val.kind # "file" THEN Return(p, Err("Path is not a regular file"))
        ELSE Goto(p, "rf_read")
    /\ UNCHANGED <<fs, approved, lock, req, canonical, bytes, univ>>

\* fs::read(file_path), file_path being the path as requested
read_file_read(p) ==
    /\ pc[p] = "rf_read"
    /\ LET r == FsRead(fs, req[p].path) IN
        IF r.ok
        THEN /\ bytes' = [bytes EXCEPT ![p] = r.val]
             /\ Goto(p, "rf_metadata")
        ELSE /\ Return(p, Err("Failed to read file"))
             /\ UNCHANGED bytes
    /\ UNCHANGED <<fs, approved, lock, req, canonical, univ>>

\* fs::metadata(file_path), decoding, and the FileContent
read_file_metadata(p) ==
    /\ pc[p] = "rf_metadata"
    /\ LET m == metadata(fs, req[p].path)
           encoding == detect_encoding(bytes[p])
           content == decode(encoding, bytes[p])
       IN IF ~m.ok THEN Return(p, Err("Failed to get metadata"))
          ELSE Return(p, Ok([content |-> content,
                             encoding |-> encoding,
                             path |-> req[p].path,
                             file_name |-> file_name(req[p].path),
                             size |-> Len(m.val.bytes),
                             line_ending |-> detect_line_ending(content)]))
    /\ UNCHANGED <<fs, approved, lock, req, canonical, bytes, univ>>

(***************************************************************************)
(* save_file                                                               *)
(***************************************************************************)
call_save_file(p) ==
    \E path \in univ.write, text \in univ.texts : Dispatch(p, "save_file", path, text, "sf_write")

save_file_write(p) ==
    /\ pc[p] = "sf_write"
    /\ LET w == write(fs, req[p].path, as_bytes(req[p].text)) IN
        IF w.ok
        THEN /\ fs' = w.val
             /\ Return(p, Ok(<<>>))
        ELSE /\ Return(p, Err("Failed to save file"))
             /\ UNCHANGED fs
    /\ UNCHANGED <<approved, lock, req, canonical, bytes, univ>>

(***************************************************************************)
(* save_file_as, with validate_write_path                                  *)
(***************************************************************************)
call_save_file_as(p) ==
    \E path \in univ.write, text \in univ.texts : Dispatch(p, "save_file_as", path, text, "vw_parent")

\* file_path.parent()
validate_write_path_parent(p) ==
    /\ pc[p] = "vw_parent"
    /\ IF parent(req[p].path) = <<>>
       THEN Return(p, Err("Invalid file path (no parent directory)"))
       ELSE Goto(p, "ipa_canonicalize")
    /\ UNCHANGED <<fs, approved, lock, req, canonical, bytes, univ>>

\* parent.exists(), parent being the parent of the path as requested
validate_write_path_exists(p) ==
    /\ pc[p] = "vw_exists"
    /\ IF ~exists(fs, parent(req[p].path)[1])
       THEN Return(p, Err("Parent directory does not exist"))
       ELSE Goto(p, "vw_is_dir")
    /\ UNCHANGED <<fs, approved, lock, req, canonical, bytes, univ>>

\* (the is_dir test left out)
validate_write_path_any_parent(p) ==
    /\ pc[p] = "vw_is_dir"
    /\ Goto(p, "sa_write")
    /\ UNCHANGED <<fs, approved, lock, req, canonical, bytes, univ>>

\* parent.is_dir()
validate_write_path_is_dir(p) ==
    /\ pc[p] = "vw_is_dir"
    /\ IF ~is_dir(fs, parent(req[p].path)[1])
       THEN Return(p, Err("Parent path is not a directory"))
       ELSE Goto(p, "sa_write")
    /\ UNCHANGED <<fs, approved, lock, req, canonical, bytes, univ>>

save_file_as_write(p) ==
    /\ pc[p] = "sa_write"
    /\ LET w == write(fs, req[p].path, as_bytes(req[p].text)) IN
        IF w.ok
        THEN /\ fs' = w.val
             /\ Return(p, Ok(<<>>))
        ELSE /\ Return(p, Err("Failed to save file"))
             /\ UNCHANGED fs
    /\ UNCHANGED <<approved, lock, req, canonical, bytes, univ>>

(***************************************************************************)
(* list_directory, with validate_read_dir                                  *)
(***************************************************************************)
call_list_directory(p) ==
    \E path \in univ.list : Dispatch(p, "list_directory", path, <<>>, "ipa_canonicalize")

validate_read_dir_metadata(p) ==
    /\ pc[p] = "vd_metadata"
    /\ LET m == metadata(fs, canonical[p]) IN
        IF ~m.ok THEN Return(p, Err("Cannot access directory metadata"))
        ELSE IF m.val.kind # "dir" THEN Return(p, Err("Path is not a directory"))
        ELSE Goto(p, "ld_build")
    /\ UNCHANGED <<fs, approved, lock, req, canonical, bytes, univ>>

\* build_file_tree(dir_path, 0, 10), dir_path being the path as requested; the
\* value returned is ret.val.entries, ret.val.reads records the fs::read_dir calls
list_directory_build(p) ==
    /\ pc[p] = "ld_build"
    /\ \E rev \in BOOLEAN :
        LET t == build_file_tree(fs, req[p].path, 0, MaxDepth, rev) IN
        Return(p, Ok(t))
    /\ UNCHANGED <<fs, approved, lock, req, canonical, bytes, univ>>

(***************************************************************************)
(* get_file_language                                                       *)
(***************************************************************************)
call_get_file_language(p) ==
    /\ p \in univ.workers
    /\ pc[p] = "idle"
    /\ \E name \in univ.names :
        /\ req' = [req EXCEPT ![p] = [op |-> "get_file_language", path |-> <<name>>,
                                      text |-> <<>>]]
        /\ Return(p, Ok(get_file_language(name)))
    /\ UNCHANGED <<fs, approved, lock, canonical, bytes, univ>>

(***************************************************************************)
(* The world outside the program: the symlink /a/b/l is pointed elsewhere. *)
(***************************************************************************)
LinkTargets == {Outside, Proj \o <<nF>>}

SwapLink ==
    /\ \E t \in LinkTargets :
        /\ fs[Proj \o <<nL>>].target # t
        /\ fs' = [fs EXCEPT ![Proj \o <<nL>>] = Link(t)]
    /\ UNCHANGED <<approved, lock, pc, req, canonical, bytes, ret, univ>>

Next ==
    \/ \E p \in Workers :
        \/ call_approve_path(p)
        \/ approve_path_canonicalize(p)
        \/ approve_path_lock(p)
        \/ approve_path_push(p)
        \/ call_clear_approved_paths(p)
        \/ clear_approved_paths_lock(p)
        \/ clear_approved_paths_clear(p)
        \/ call_read_file(p)
        \/ call_save_file(p)
        \/ call_save_file_as(p)
        \/ call_list_directory(p)
        \/ call_get_file_language(p)
        \/ is_path_allowed_canonicalize(p)
        \/ is_path_allowed_lock(p)
        \/ is_path_allowed_check(p)
        \/ validate_file_path_metadata(p)
        \/ read_file_read(p)
        \/ read_file_metadata(p)
        \/ save_file_write(p)
        \/ validate_write_path_parent(p)
        \/ validate_write_path_exists(p)
        \/ validate_write_path_is_dir(p)
        \/ save_file_as_write(p)
        \/ validate_read_dir_metadata(p)
        \/ list_directory_build(p)
        \/ Respond(p)
    \/ SwapLink

Spec == Init /\ [][Next]_vars

\* the same program, two requests in flight at once
InitConcurrent ==
    /\ fs = InitFs
    /\ approved = <<>>
    /\ lock = NoProc
    /\ pc = [p \in Workers |-> "idle"]
    /\ req = [p \in Workers |-> Idle]
    /\ canonical = [p \in Workers |-> <<>>]
    /\ bytes = [p \in Workers |-> <<>>]
    /\ ret = [p \in Workers |-> Pending]
    /\ univ = Concurrent

SpecConcurrent == InitConcurrent /\ [][Next]_vars

\* One worker that edits the file /a/b/f: every kind of text is saved to it.
Editing ==
    [workers |-> {"w1"},
     approve |-> {Proj},
     read |-> {Proj \o <<nF>>},
     list |-> {Proj},
     write |-> {Proj \o <<nF>>},
     texts |-> {T1, T2, T3, TBom},
     names |-> {<<"m", ".", "R", "S">>}]

InitEditing ==
    /\ fs = InitFs
    /\ approved = <<>>
    /\ lock = NoProc
    /\ pc = [p \in Workers |-> "idle"]
    /\ req = [p \in Workers |-> Idle]
    /\ canonical = [p \in Workers |-> <<>>]
    /\ bytes = [p \in Workers |-> <<>>]
    /\ ret = [p \in Workers |-> Pending]
    /\ univ = Editing

SpecEditing == InitEditing /\ [][Next]_vars

(***************************************************************************)
(* The failure signals of the interface, by the messages the code returns. *)
(***************************************************************************)
PathResolutionError == "Cannot resolve path"
AccessDenied == "Access denied"
NotAFile == "Path is not a regular file"
NotADirectory == "Path is not a directory"
InvalidParent ==
    {"Invalid file path (no parent directory)", "Parent directory does not exist",
     "Parent path is not a directory"}

Done(p, op) == pc[p] = "done" /\ req[p].op = op
Failed(p, e) == ~ret[p].ok /\ ret[p].err = e /\ ret[p].val = <<>>

\* P covers c: c is P or P is an ancestor of c, on whole path segments
Covers(P, c) == Len(P) <= Len(c) /\ \A i \in 1..Len(P) : c[i] = P[i]
CoveredBy(allowed, c) == \E i \in 1..Len(allowed) : Covers(allowed[i], c)

(***************************************************************************)
(* C1.  write(path, text), the command save_file, is mediated by the       *)
(* Access Validator: when the canonical parent of path is covered by no    *)
(* approved path, the write returns AccessDenied and changes no file.      *)
(* The code's save_file writes without any validation, so this fails.      *)
(***************************************************************************)
C1_WriteIsMediated ==
    [][\A p \in Workers :
        (/\ pc[p] = "sf_write"
         /\ pc'[p] = "done"
         /\ LET par == canonicalize(fs, parent(req[p].path)[1]) IN
                parent(req[p].path) # <<>> /\ par.ok /\ ~CoveredBy(approved, par.val))
        => (/\ ~ret'[p].ok
            /\ ret'[p].err = AccessDenied
            /\ fs' = fs)]_vars

(***************************************************************************)
(* C2.  The allowlist lookup accepts a resolved path iff some approved     *)
(* path equals it or is an ancestor of it on path-segment boundaries; in   *)
(* particular /a/bb is rejected when only /a/b is approved, and with an    *)
(* empty allowlist every path is rejected.                                 *)
(***************************************************************************)
LookupDenied(p) == pc'[p] = "done" /\ ~ret'[p].ok /\ ret'[p].err = AccessDenied

C2_LookupIffCovered ==
    [][\A p \in Workers :
        (pc[p] = "ipa_check" /\ pc'[p] # "ipa_check")
        => /\ ~LookupDenied(p) <=> CoveredBy(approved, canonical[p])
           /\ approved = <<>> => LookupDenied(p)
           /\ (approved = <<Proj>> /\ canonical[p] = <<nA, nBB>>) => LookupDenied(p)]_vars

\* /a/b is approved and the read of its sibling /a/bb was denied
C2_Witness ==
    \E p \in Workers :
        /\ Done(p, "read_file")
        /\ req[p].path = <<nA, nBB>>
        /\ approved = <<Proj>>
        /\ Failed(p, AccessDenied)

(***************************************************************************)
(* C3.  After clear_allowlist returns, and until a later approve           *)
(* completes, the allowlist is empty and the lookup denies every path,     *)
(* the paths approved before the clear among them.                         *)
(***************************************************************************)
C3_ClearedUntilApprove ==
    [][/\ \A p \in Workers :
            (pc[p] = "cl_clear" /\ pc'[p] = "done") => (approved' = <<>> /\ ret'[p].ok)
       /\ (approved = <<>> /\ approved' # <<>>)
            => \E p \in Workers : pc[p] = "ap_push" /\ pc'[p] = "done"
       /\ \A p \in Workers :
            (pc[p] = "ipa_check" /\ pc'[p] # "ipa_check" /\ approved = <<>>)
            => LookupDenied(p)]_vars

\* w1's approval of /a/b completed, w2 cleared after it, and w2's read of
\* /a/b/f is denied
C3_Witness ==
    /\ Done("w1", "approve_path") /\ ret["w1"].ok /\ canonical["w1"] = Proj
    /\ Done("w2", "read_file") /\ req["w2"].path = Proj \o <<nF>>
    /\ Failed("w2", AccessDenied)
    /\ approved = <<>>

(***************************************************************************)
(* C4.  As claimed: a read of a path that no approved path covers fails    *)
(* with AccessDenied, whether or not the file exists.  (A path is covered  *)
(* neither as written nor as resolved.)                                    *)
(***************************************************************************)
NoApprovalCovers(q) ==
    /\ ~CoveredBy(approved, q)
    /\ LET c == canonicalize(fs, q) IN c.ok => ~CoveredBy(approved, c.val)

C4_UncoveredReadDenied ==
    \A p \in Workers :
        (Done(p, "read_file") /\ NoApprovalCovers(req[p].path)) => Failed(p, AccessDenied)

(***************************************************************************)
(* C4, amended.  A read of a path that no approved path covers fails and   *)
(* returns no content: with PathResolutionError when the path does not     *)
(* resolve (the file does not exist), with AccessDenied when it resolves.  *)
(***************************************************************************)
C4_UncoveredReadFails ==
    [][\A p \in Workers : (req[p].op = "read_file" /\ pc'[p] # pc[p]) =>
        /\ (pc[p] = "ipa_canonicalize" /\ ~canonicalize(fs, req[p].path).ok)
            => (pc'[p] = "done" /\ ret'[p] = Err(PathResolutionError))
        /\ (pc[p] = "ipa_check" /\ ~CoveredBy(approved, canonical[p]))
            => (pc'[p] = "done" /\ ret'[p] = Err(AccessDenied))
        /\ (pc[p] = "ipa_canonicalize" /\ canonicalize(fs, req[p].path).ok)
            => (pc'[p] = "ipa_lock" /\ canonical'[p] = canonicalize(fs, req[p].path).val)]_vars

\* nothing is approved; the read of the missing /o/x failed to resolve
C4_Witness ==
    \E p \in Workers :
        /\ Done(p, "read_file")
        /\ req[p].path = Missing
        /\ approved = <<>>
        /\ Failed(p, PathResolutionError)

(***************************************************************************)
(* C5.  For a path the allowlist covers, read passes validation only if    *)
(* the resolved target is a regular file and fails with NotAFile           *)
(* otherwise; list passes validation only if it is a directory and fails   *)
(* with NotADirectory otherwise; the failures return nothing.              *)
(***************************************************************************)
KindOf(p) == fs[canonical[p]].kind

C5_StructuralCheck ==
    \A p \in Workers :
        /\ (pc[p] \in {"rf_read", "rf_metadata"} \/ (Done(p, "read_file") /\ ret[p].ok))
            => KindOf(p) = "file"
        /\ (pc[p] = "ld_build" \/ (Done(p, "list_directory") /\ ret[p].ok))
            => KindOf(p) = "dir"
        /\ (Done(p, "read_file") /\ ret[p].err # PathResolutionError
                /\ CoveredBy(approved, canonical[p]) /\ KindOf(p) # "file")
            => Failed(p, NotAFile)
        /\ (Done(p, "list_directory") /\ ret[p].err # PathResolutionError
                /\ CoveredBy(approved, canonical[p]) /\ KindOf(p) # "dir")
            => Failed(p, NotADirectory)

\* /a/b is approved and the read of the directory /a/b failed with NotAFile
C5_Witness ==
    \E p \in Workers :
        /\ Done(p, "read_file")
        /\ req[p].path = Proj
        /\ CoveredBy(approved, Proj)
        /\ Failed(p, NotAFile)

(***************************************************************************)
(* C6.  Create-on-write: once the existing directory D is approved,        *)
(* write_as(D/new, T) for a file that did not exist passes validation and  *)
(* succeeds, and the file then exists with content T.                      *)
(***************************************************************************)
RealDir(d) == d \in DOMAIN fs /\ fs[d].kind = "dir" /\ canonicalize(fs, d) = Ok(d)

C6_CreateOnWrite ==
    \A p \in Workers :
        (/\ Done(p, "save_file_as")
         /\ req[p].path # Root
         /\ RealDir(parent(req[p].path)[1])
         /\ CoveredBy(approved, parent(req[p].path)[1])
         /\ req[p].path \notin DOMAIN InitFs)
        => (/\ ret[p] = Ok(<<>>)
            /\ req[p].path \in DOMAIN fs
            /\ fs[req[p].path] = File(as_bytes(req[p].text)))

\* /a/b is approved and write_as created /a/b/n
C6_Witness ==
    \E p \in Workers :
        /\ Done(p, "save_file_as")
        /\ req[p].path = Proj \o <<nN>>
        /\ approved # <<>> /\ \A i \in 1..Len(approved) : approved[i] = Proj
        /\ ret[p].ok
        /\ fs[Proj \o <<nN>>] = File(as_bytes(req[p].text))

(***************************************************************************)
(* C7.  approve, the lookup and clear exclude each other on the shared     *)
(* store: at most one request is inside the critical section, the store    *)
(* changes only in a step of the request that holds the lock, and a        *)
(* completing approve appends to everything approved so far, so that no    *)
(* approval is lost.                                                       *)
(***************************************************************************)
InCriticalSection == {p \in Workers : pc[p] \in {"ap_push", "cl_clear", "ipa_check"}}

C7_MutualExclusion ==
    /\ [](/\ Cardinality(InCriticalSection) <= 1
          /\ \A p \in Workers : p \in InCriticalSection <=> lock = p)
    /\ [][/\ \A p \in Workers :
                (pc[p] = "ap_push" /\ pc'[p] = "done")
                => approved' = Append(approved, canonical[p])
          /\ approved' # approved
                => (lock \in Workers /\ pc'[lock] = "done" /\ lock' = NoProc)]_vars

\* both workers completed an approval, of different paths, and both paths
\* are in the allowlist
C7_Witness ==
    /\ Done("w1", "approve_path") /\ ret["w1"].ok
    /\ Done("w2", "approve_path") /\ ret["w2"].ok
    /\ canonical["w1"] # canonical["w2"]
    /\ approved \in {<<canonical["w1"], canonical["w2"]>>, <<canonical["w2"], canonical["w1"]>>}

(***************************************************************************)
(* C8.  The allowlist changes only when an approve appends one path or a   *)
(* clear empties it: validation, read, write, write_as, list and classify  *)
(* leave it as it is whether they succeed or fail, and no member is        *)
(* removed individually.                                                   *)
(***************************************************************************)
OpOfStep(p) == IF pc[p] = "idle" THEN req'[p].op ELSE req[p].op

C8_AllowlistFrame ==
    [][/\ approved' # approved
            => \E p \in Workers :
                /\ pc'[p] = "done"
                /\ \/ pc[p] = "ap_push" /\ approved' = Append(approved, canonical[p])
                   \/ pc[p] = "cl_clear" /\ approved' = <<>>
       /\ \A p \in Workers :
            (pc'[p] # pc[p] /\ OpOfStep(p) \notin {"approve_path", "clear_approved_paths"})
            => approved' = approved]_vars

\* a write_as was denied and a member of the allowlist is still there
C8_Witness ==
    \E p \in Workers :
        /\ Done(p, "save_file_as")
        /\ Failed(p, AccessDenied)
        /\ approved = <<Proj \o <<nF>>>>

(***************************************************************************)
(* C9.  approve appends exactly the canonical form of its path, or fails   *)
(* with PathResolutionError and leaves the allowlist as it is; every       *)
(* member of the allowlist is canonical: no "..", no symlink on the way.   *)
(***************************************************************************)
IsCanonical(P) ==
    \A k \in 1..Len(P) :
        /\ P[k] # DotDot
        /\ SubSeq(P, 1, k) \in DOMAIN fs
        /\ fs[SubSeq(P, 1, k)].kind # "link"

C9_MembersCanonical ==
    /\ [](\A i \in 1..Len(approved) : IsCanonical(approved[i]))
    /\ [][\A p \in Workers : (req[p].op = "approve_path" /\ pc'[p] # pc[p]) =>
            LET c == canonicalize(fs, req[p].path) IN
            /\ (pc[p] = "ap_canonicalize" /\ c.ok)
                => (canonical'[p] = c.val /\ approved' = approved)
            /\ (pc[p] = "ap_canonicalize" /\ ~c.ok)
                => (pc'[p] = "done" /\ ret'[p] = Err(PathResolutionError)
                    /\ approved' = approved)
            /\ pc[p] = "ap_push"
                => (approved' = Append(approved, canonical[p]) /\ ret'[p].ok)]_vars

\* the symlink /a/b/l and then /a/b/../b were approved, and the allowlist
\* holds what the symlink pointed to and /a/b
C9_Witness ==
    \E p \in Workers :
        /\ Done(p, "approve_path")
        /\ req[p].path = Proj \o <<DotDot, nB>>
        /\ ret[p].ok
        /\ approved = <<Outside, Proj>>

(***************************************************************************)
(* C10.  list on an approved directory reads no directory at a recursion   *)
(* depth above 10, and at no level of the forest it returns is there an    *)
(* entry whose name starts with "." or is node_modules or target.          *)
(***************************************************************************)
RECURSIVE NoHiddenOrIgnored(_)
NoHiddenOrIgnored(forest) ==
    \A i \in 1..Len(forest) :
        /\ forest[i].name[1] # "."
        /\ forest[i].name # nNodeModules
        /\ forest[i].name # nTarget
        /\ forest[i].children # <<>> => NoHiddenOrIgnored(forest[i].children[1])

RECURSIVE Height(_)
Height(forest) ==
    IF forest = <<>> THEN 0
    ELSE LET hs == {IF forest[i].children = <<>> THEN 0 ELSE Height(forest[i].children[1]) :
                    i \in 1..Len(forest)}
         IN 1 + CHOOSE h \in hs : \A g \in hs : g <= h

C10_ListBounded ==
    \A p \in Workers :
        (Done(p, "list_directory") /\ ret[p].ok)
        => /\ \A d \in ret[p].val.reads : d <= 10
           /\ Height(ret[p].val.entries) <= 11
           /\ NoHiddenOrIgnored(ret[p].val.entries)

\* /a/b was listed: it holds hidden and ignored entries and a directory at
\* depth 11, and the directory at depth 10 was read
C10_Witness ==
    \E p \in Workers :
        /\ Done(p, "list_directory") /\ ret[p].ok
        /\ req[p].path = Proj
        /\ 10 \in ret[p].val.reads
        /\ {Chain(11), Chain(12), Proj \o <<nGit>>, Proj \o <<nNodeModules>>,
            Proj \o <<nTarget>>, Proj \o <<nD, nGit>>} \subseteq DOMAIN fs
        /\ Len(ret[p].val.entries) > 0

(***************************************************************************)
(* C11.  Round trip: when the text T was written to an approved path and   *)
(* the same path is read back, the content returned is T and the line      *)
(* ending returned is CRLF when T holds "\r\n" anywhere (also next to a    *)
(* bare "\r"), else CR when T holds a bare "\r", else LF.  read_file       *)
(* decodes with Encoding::decode, which removes a leading U+FEFF, so a     *)
(* text that begins with U+FEFF does not come back: this fails.            *)
(***************************************************************************)
HasCRLF(t) == \E i \in 1..(Len(t) - 1) : t[i] = CR /\ t[i + 1] = LF
HasCR(t) == \E i \in 1..Len(t) : t[i] = CR
LineEndingOf(t) == IF HasCRLF(t) THEN "CRLF" ELSE IF HasCR(t) THEN "CR" ELSE "LF"

\* the file at q holds what a write of the text t left there
Holds(q, t) == q \in DOMAIN fs /\ fs[q].kind = "file" /\ fs[q].bytes = as_bytes(t)

C11_RoundTrip ==
    \A p \in Workers : \A t \in univ.texts :
        (/\ Done(p, "read_file")
         /\ ret[p].ok
         /\ req[p].path = Proj \o <<nF>>
         /\ Holds(Proj \o <<nF>>, t))
        => /\ ret[p].val.content = t
           /\ ret[p].val.line_ending = LineEndingOf(t)

(***************************************************************************)
(* C12.  The File Operation Layer acts on the canonical path that          *)
(* validation accepted: the object that read, write_as or list opens is    *)
(* the object that canonical path denotes, also when the requested path    *)
(* was pointed elsewhere between validation and the operation.  The        *)
(* validators return (), and the commands open the path as requested, so   *)
(* this fails when the symlink is swapped in between.                      *)
(***************************************************************************)
\* the step of p that opens the file or directory of its request
OpensObject(p) ==
    /\ pc[p] \in {"rf_read", "sa_write", "ld_build"}
    /\ pc'[p] # pc[p]

\* the location that the path handed to the file call denotes at this moment
\* (for a write, the directory in which the file is opened)
OpenedNow(p) ==
    canonicalize(fs, IF req[p].op = "save_file_as" THEN parent(req[p].path)[1]
                     ELSE req[p].path)

C12_ActsOnValidatedPath ==
    [][\A p \in Workers :
        OpensObject(p) => OpenedNow(p) = Ok(canonical[p])]_vars

(***************************************************************************)
(* C13.  Canonicalization is done anew at every validation, against the    *)
(* filesystem as it is then: the canonical path of a read or list request  *)
(* is what its path resolves to at that moment, and a request whose path   *)
(* lies textually inside an approved folder but resolves, through a        *)
(* symlink or "..", to a location outside every approved path fails with   *)
(* AccessDenied; a read or list that succeeds resolved inside one.         *)
(***************************************************************************)
ReadOrList(p) == req[p].op \in {"read_file", "list_directory"}

C13_FreshCanonicalization ==
    [][\A p \in Workers : (ReadOrList(p) /\ pc'[p] # pc[p]) =>
        /\ pc[p] = "ipa_canonicalize"
            => LET c == canonicalize(fs, req[p].path) IN
               IF c.ok THEN pc'[p] = "ipa_lock" /\ canonical'[p] = c.val
               ELSE pc'[p] = "done" /\ ret'[p] = Err(PathResolutionError)
        /\ (pc[p] = "ipa_check" /\ ~CoveredBy(approved, canonical[p]))
            => (pc'[p] = "done" /\ ret'[p] = Err(AccessDenied))
        /\ (pc'[p] = "done" /\ ret'[p].ok)
            => CoveredBy(approved, canonical[p])]_vars

\* /a/b is approved and /a/b/l, textually inside it, is a symlink to /o/s
C13_Witness ==
    /\ Done("w1", "read_file")
    /\ req["w1"].path = Proj \o <<nL>>
    /\ approved = <<Proj>>
    /\ Covers(Proj, req["w1"].path)
    /\ canonical["w1"] = Outside
    /\ Failed("w1", AccessDenied)

(***************************************************************************)
(* C14.  The allowlist lock is held only for the lookup or the change in   *)
(* memory: in no reachable state does a request hold the lock while it is  *)
(* at a filesystem call (canonicalize, metadata, exists, is_dir, read,     *)
(* write, read_dir), and no step taken under the lock changes a file.      *)
(***************************************************************************)
\* the positions whose next step is a call into std::fs
AtFsCall ==
    {"ap_canonicalize", "ipa_canonicalize", "vf_metadata", "rf_read", "rf_metadata",
     "sf_write", "vw_exists", "vw_is_dir", "sa_write", "vd_metadata", "ld_build"}

C14_NoFsCallUnderLock ==
    /\ [](\A p \in Workers : lock = p => pc[p] \notin AtFsCall)
    /\ [][\A p \in Workers : (lock = p /\ pc'[p] # pc[p]) => fs' = fs]_vars

\* one request holds the lock for its lookup while the other is at a file call
C14_Witness ==
    /\ lock = "w1"
    /\ pc["w1"] = "ipa_check"
    /\ pc["w2"] \in AtFsCall

(***************************************************************************)
(* C15.  A write_as request whose target exists and is a directory, its    *)
(* parent being covered by an approval, is rejected with NotAFile by the   *)
(* structural check, before any write is attempted.  validate_write_path   *)
(* looks at the parent only, so fs::write is attempted and its failure is  *)
(* returned as "Failed to save file": this fails.                          *)
(***************************************************************************)
\* the request of p is a write_as onto an existing directory in a covered parent
WriteOntoDirectory(p) ==
    /\ req[p].op = "save_file_as"
    /\ req[p].path # Root
    /\ LET t == canonicalize(fs, req[p].path) IN t.ok /\ fs[t.val].kind = "dir"
    /\ LET d == canonicalize(fs, parent(req[p].path)[1]) IN d.ok /\ CoveredBy(approved, d.val)

C15_DirectoryTargetRejected ==
    \A p \in Workers :
        WriteOntoDirectory(p)
        => /\ pc[p] # "sa_write"
           /\ pc[p] = "done" => Failed(p, NotAFile)

(***************************************************************************)
(* C16, as stated.  write_as fails with InvalidParent, writing nothing,    *)
(* whenever the parent of the path does not exist or is not a directory,   *)
(* or the path has no parent component at all.                             *)
(***************************************************************************)
\* the path of p's write_as has no parent, or a parent that is no directory
BadParent(p) ==
    /\ req[p].op = "save_file_as"
    /\ \/ parent(req[p].path) = <<>>
       \/ ~is_dir(fs, parent(req[p].path)[1])

C16_BadParentIsInvalidParent ==
    \A p \in Workers :
        BadParent(p)
        => /\ pc[p] # "sa_write"
           /\ pc[p] = "done" => (~ret[p].ok /\ ret[p].err \in InvalidParent)

(***************************************************************************)
(* C16, amended.  write_as on such a path always fails and writes          *)
(* nothing.  The error is InvalidParent when the path has no parent, or    *)
(* when the parent resolves, is covered by an approval and is not a        *)
(* directory; it is PathResolutionError when the parent cannot be resolved *)
(* (it does not exist), and AccessDenied when the parent resolves to a     *)
(* location that no approval covers: canonicalization and the lookup       *)
(* precede the tests of the parent.                                        *)
(***************************************************************************)
C16_BadParentFails ==
    \A p \in Workers :
        BadParent(p)
        => /\ pc[p] # "sa_write"
           /\ pc[p] = "done" =>
                LET c == IF parent(req[p].path) = <<>> THEN Err("")
                         ELSE canonicalize(fs, parent(req[p].path)[1])
                IN /\ ~ret[p].ok
                   /\ parent(req[p].path) = <<>>
                        => ret[p].err = "Invalid file path (no parent directory)"
                   /\ (parent(req[p].path) # <<>> /\ ~c.ok)
                        => ret[p].err = PathResolutionError
                   /\ (c.ok /\ ~CoveredBy(approved, c.val)) => ret[p].err = AccessDenied
                   /\ (c.ok /\ CoveredBy(approved, c.val))
                        => ret[p].err = "Parent path is not a directory"

\* /a/b is approved and the parent /a/b/f of the path is a file
C16_Witness ==
    /\ Done("w1", "save_file_as")
    /\ req["w1"].path = Proj \o <<nF, nN>>
    /\ approved = <<Proj>>
    /\ Failed("w1", "Parent path is not a directory")
    /\ fs = InitFs

(***************************************************************************)
(* C17.  In every FileEntry forest that list returns: an entry has         *)
(* children exactly when it is marked a directory; every sequence of       *)
(* siblings is ordered directories first, then by the names without        *)
(* regard to case; and the entries that the filter leaves stand in that    *)
(* same order.                                                             *)
(***************************************************************************)
\* x has to stand before y
Precedes(x, y) ==
    \/ x.is_dir /\ ~y.is_dir
    \/ x.is_dir = y.is_dir /\ StrLess(to_lowercase(x.name), to_lowercase(y.name))

RECURSIVE WellOrdered(_)
WellOrdered(forest) ==
    /\ \A i, j \in 1..Len(forest) : i < j => ~Precedes(forest[j], forest[i])
    /\ \A i \in 1..Len(forest) :
        /\ forest[i].children # <<>> <=> forest[i].is_dir
        /\ forest[i].children # <<>> => WellOrdered(forest[i].children[1])

C17_ForestShape ==
    \A p \in Workers :
        (Done(p, "list_directory") /\ ret[p].ok) => WellOrdered(ret[p].val.entries)

\* the names listed in a forest, in order
Names(forest) == [i \in 1..Len(forest) |-> forest[i].name]

\* /a/b was listed: the directory d stands before the files, B between a and
\* f, the symlink l has no children, and hidden entries were filtered out
C17_Witness ==
    /\ Done("w1", "list_directory")
    /\ ret["w1"].ok
    /\ req["w1"].path = Proj
    /\ Names(ret["w1"].val.entries) = <<nD, nA, nUpperB, nF, nL>>
    /\ ret["w1"].val.entries[1].children # <<>>
    /\ ret["w1"].val.entries[5].children = <<>>
    /\ Proj \o <<nGit>> \in DOMAIN fs

(***************************************************************************)
(* C18.  Every file that a successful write_as changes or creates lies at  *)
(* a canonical location that an approved path covers, also when the last   *)
(* component of the path is an existing symlink, inside an approved        *)
(* directory, that points outside every approved path.  validate_write_path *)
(* resolves the parent only and fs::write follows the symlink, so this     *)
(* fails.                                                                  *)
(***************************************************************************)
\* the locations whose file the step wrote
Written == {q \in DOMAIN fs' : q \notin DOMAIN fs \/ fs'[q] # fs[q]}

C18_WritesStayInside ==
    [][\A p \in Workers :
        (pc[p] = "sa_write" /\ pc'[p] = "done" /\ ret'[p].ok)
        => \A q \in Written : CoveredBy(approved, q)]_vars

(***************************************************************************)
(* C19.  Whether a read, write_as or list request is permitted is decided  *)
(* by the contents of the allowlist at the one instant at which its lookup *)
(* holds the lock, and by nothing else: the lookup step denies exactly     *)
(* when no path approved at that instant covers the canonical path; no     *)
(* other step of the request returns AccessDenied; and a step of another   *)
(* request (an approve or a clear that completes later) leaves the         *)
(* request's position and result as they are.                              *)
(***************************************************************************)
FileOp(p) == req[p].op \in {"read_file", "save_file_as", "list_directory"}

C19_DecidedAtLookup ==
    [][\A p \in Workers :
        /\ (FileOp(p) /\ pc'[p] # pc[p]) =>
            /\ pc[p] = "ipa_check"
                => /\ lock = p
                   /\ LookupDenied(p) <=> ~CoveredBy(approved, canonical[p])
            /\ pc[p] # "ipa_check" => ~LookupDenied(p)
        /\ pc'[p] = pc[p] => ret'[p] = ret[p]]_vars

\* the read of w1 was permitted while /a/b was approved; the clear of w2
\* completed afterwards, and the read has still succeeded
C19_Witness ==
    /\ Done("w1", "read_file")
    /\ ret["w1"].ok
    /\ Done("w2", "clear_approved_paths")
    /\ approved = <<>>

(***************************************************************************)
(* C20.  Whether write_as is permitted depends only on whether the         *)
(* canonical parent directory of its path is covered, not on the path      *)
(* itself: when the only approval is of the regular file /a/b/f, a         *)
(* write_as to /a/b/f is denied with AccessDenied and leaves the file as   *)
(* it was, although a read of /a/b/f is allowed.                           *)
(***************************************************************************)
OnlyFileApproved ==
    /\ approved # <<>>
    /\ \A i \in 1..Len(approved) : approved[i] = Proj \o <<nF>>

C20_ParentDecidesWrite ==
    /\ [](\A p \in Workers : (OnlyFileApproved /\ req[p].path = Proj \o <<nF>>) =>
            /\ Done(p, "save_file_as") => Failed(p, AccessDenied)
            /\ req[p].op = "save_file_as" => pc[p] # "sa_write"
            /\ Done(p, "read_file") => (ret[p].ok /\ ret[p].val.path = Proj \o <<nF>>))
    /\ [][\A p \in Workers :
            (req[p].op = "save_file_as" /\ pc[p] = "ipa_check" /\ pc'[p] # pc[p])
            => /\ canonical[p] = canonicalize(fs, parent(req[p].path)[1]).val
               /\ LookupDenied(p) <=> ~CoveredBy(approved, canonical[p])]_vars

\* only /a/b/f is approved; the write_as to it was looked up by its parent /a/b
C20_Witness ==
    /\ Done("w1", "save_file_as")
    /\ req["w1"].path = Proj \o <<nF>>
    /\ OnlyFileApproved
    /\ canonical["w1"] = Proj
    /\ Failed("w1", AccessDenied)
    /\ fs[Proj \o <<nF>>] = InitFs[Proj \o <<nF>>]

====
